---------------------------- MODULE Spec2Model ----------------------------
(***************************************************************************)
(* A model of inversify-koa-utils: the decorators that fill the metadata   *)
(* registry (src/src/decorators.ts), InversifyKoaServer (src/src/server.ts)*)
(* with setConfig, setErrorConfig, build, registerControllers,             *)
(* resolveMiddleware and handlerFactory, and the handling of a request by  *)
(* the middleware chain that build() installs.                             *)
(*                                                                         *)
(* JavaScript values are records with a "tag": an inline function, a       *)
(* service identifier (symbol), a BaseMiddleware instance, the adapter     *)
(* function resolveMiddleware wraps around such an instance, the handler   *)
(* handlerFactory generates, the principal middleware and the router       *)
(* middleware build() installs.                                            *)
(***************************************************************************)
EXTENDS Naturals, Sequences, FiniteSets, TLC

VARIABLES
    controllerMeta,    \* class -> ControllerMetadata, or None ("_controller")
    methodMeta,        \* class -> list of ControllerMethodMetadata (<<>>: no list defined)
    authorizeAllMeta,  \* class -> AuthorizeAllMetadata, or None
    authorizeMeta,     \* class -> (method name -> AuthorizeMetadata or None)
    parameterMeta,     \* class -> (method name -> list of ParameterMetadata; <<>>: none)
    controllers,       \* container: the classes bound under TYPE.Controller, in binding order
    configFn,          \* InversifyKoaServer._configFn
    errorConfigFn,     \* InversifyKoaServer._errorConfigFn
    authProvider,      \* InversifyKoaServer._AuthProvider
    rootPath,          \* InversifyKoaServer._routingConfig.rootPath
    app,               \* the Koa application's middleware chain, in app.use order
    router,            \* the koa-router: its prefix and its stack of registrations
    builds,            \* number of build() calls made so far
    buildResult,       \* how the last build() ended: "none", "returned", "threw"
    ret,               \* what the last setConfig / setErrorConfig / build returned
    trace,             \* the calls made so far on the server and by build(), in order
    requests           \* the requests received so far, each with its context and progress

metaVars   == <<controllerMeta, methodMeta, authorizeAllMeta, authorizeMeta,
                parameterMeta>>
serverVars == <<configFn, errorConfigFn, authProvider, rootPath, app, router,
                builds, buildResult, ret, trace>>
vars       == <<metaVars, controllers, serverVars, requests>>

----------------------------------------------------------------------------
(* Bounds of the model *)

MaxMethods == 2        \* httpMethod decorations per class
MaxBuilds == 2         \* build() calls on the server
MaxSets == 3           \* setConfig + setErrorConfig calls on the server
MaxRequests == 1       \* requests received by the built application
MaxConcurrent == 2     \* requests in flight at once

----------------------------------------------------------------------------
(* Values *)

None == [tag |-> "undefined"]

Fn(id)  == [tag |-> "function", id |-> id]         \* an inline Koa request handler
Sym(id) == [tag |-> "symbol", id |-> id]           \* a service identifier
Inst(id) == [tag |-> "BaseMiddleware", id |-> id]  \* an instance of a BaseMiddleware subclass

Classes == {"A", "B"}
Keys == {"m1", "m2"}

\* src/src/constants.ts:52
DEFAULT_ROUTING_ROOT_PATH == "/"

\* The container's bindings for middleware identifiers: idValue is bound to a
\* constant request handler, idBase to a BaseMiddleware class, idBroken is bound
\* but cannot be resolved (container.get throws); any other item is not bound.
bindings ==
    (Sym("idValue")  :> [resolves |-> TRUE,  value |-> Fn("spyA")]) @@
    (Sym("idBase")   :> [resolves |-> TRUE,  value |-> Inst("TestMiddleware")]) @@
    (Sym("idBroken") :> [resolves |-> FALSE, value |-> None])

\* container.isBound(serviceIdentifier)
isBound(item) == item \in DOMAIN bindings


----------------------------------------------------------------------------
(* The annotation API (decorators.ts).  A decorator is applied to a class,  *)
(* or to a method (key) of a class; it writes the metadata registry only.   *)

\* getMetadataList: the class's own list, defined empty on first use.  Every
\* caller pushes a record at once, so a list that exists is never empty and
\* the empty sequence stands for "no list defined".
getMetadataList(registry, c) == registry[c]

\* @controller(path, ...middleware)
controller(c, path, middleware) ==
    /\ controllerMeta' = [controllerMeta EXCEPT
            ![c] = [path |-> path, middleware |-> middleware, target |-> c]]
    /\ UNCHANGED <<methodMeta, authorizeAllMeta, authorizeMeta, parameterMeta,
                   controllers, serverVars, requests>>

\* The list httpMethod leaves for the class: the new record pushed at the end.
httpMethodList(list, metadata) == Append(list, metadata)

\* @httpMethod(method, path, ...middleware) on method key
httpMethod(c, method, path, middleware, key) ==
    LET metadata == [path |-> path, middleware |-> middleware, method |-> method,
                     target |-> c, key |-> key]
    IN  /\ methodMeta' = [methodMeta EXCEPT
                ![c] = httpMethodList(getMetadataList(methodMeta, c), metadata)]
        /\ UNCHANGED <<controllerMeta, authorizeAllMeta, authorizeMeta, parameterMeta,
                   controllers, serverVars, requests>>

\* @authorizeAll(...requiredRoles)
authorizeAll(c, requiredRoles) ==
    /\ authorizeAllMeta' = [authorizeAllMeta EXCEPT
            ![c] = [requiredRoles |-> requiredRoles, target |-> c]]
    /\ UNCHANGED <<controllerMeta, methodMeta, authorizeMeta, parameterMeta,
                   controllers, serverVars, requests>>

\* authorize starting from an empty map each time it is applied.
authorizeAlone(c, key, requiredRoles) ==
    /\ authorizeMeta' = [authorizeMeta EXCEPT
            ![c] = [k \in Keys |->
                      IF k = key
                      THEN [requiredRoles |-> requiredRoles, target |-> c, key |-> key]
                      ELSE None]]
    /\ UNCHANGED <<controllerMeta, methodMeta, authorizeAllMeta, parameterMeta,
                   controllers, serverVars, requests>>

\* @authorize(...requiredRoles) on method key: metadataList[key] = metadata
authorize(c, key, requiredRoles) ==
    /\ authorizeMeta' = [authorizeMeta EXCEPT
            ![c][key] = [requiredRoles |-> requiredRoles, target |-> c, key |-> key]]
    /\ UNCHANGED <<controllerMeta, methodMeta, authorizeAllMeta, parameterMeta,
                   controllers, serverVars, requests>>

\* params putting the new record at the end of the method's list (push).
paramsPush(c, key, type, parameterName, index) ==
    /\ parameterMeta' = [parameterMeta EXCEPT
            ![c][key] = Append(@, [index |-> index, parameterName |-> parameterName,
                                   type |-> type])]
    /\ UNCHANGED <<controllerMeta, methodMeta, authorizeAllMeta, authorizeMeta,
                   controllers, serverVars, requests>>

\* params(type, parameterName) on parameter `index` of method key: the new
\* record is put at the front of the method's list (unshift).
params(c, key, type, parameterName, index) ==
    /\ parameterMeta' = [parameterMeta EXCEPT
            ![c][key] = <<[index |-> index, parameterName |-> parameterName,
                           type |-> type]>> \o @]
    /\ UNCHANGED <<controllerMeta, methodMeta, authorizeAllMeta, authorizeMeta,
                   controllers, serverVars, requests>>

\* paramDecoratorFactory(parameterType)(name): name = name || "default".  The
\* empty string stands for a name that was not given.
paramDecoratorFactory(c, key, parameterType, name, index) ==
    params(c, key, parameterType, IF name = "" THEN "default" ELSE name, index)

\* container.bind(TYPE.Controller).to(c).whenTargetNamed(c)
bindController(c) ==
    /\ controllers' = Append(controllers, c)
    /\ UNCHANGED <<metaVars, serverVars, requests>>

----------------------------------------------------------------------------
(* InversifyKoaServer: setConfig, setErrorConfig *)

\* setConfig that keeps a function already set.
setConfigKeepsFirst(fn) ==
    /\ configFn' = IF configFn = None THEN fn ELSE configFn
    /\ ret' = "this"
    /\ trace' = Append(trace, [ev |-> "setConfig", fn |-> fn])
    /\ UNCHANGED <<metaVars, controllers, errorConfigFn, authProvider, rootPath, app,
                   router, builds, buildResult, requests>>

\* setConfig(fn): this._configFn = fn; return this
setConfig(fn) ==
    /\ configFn' = fn
    /\ ret' = "this"
    /\ trace' = Append(trace, [ev |-> "setConfig", fn |-> fn])
    /\ UNCHANGED <<metaVars, controllers, errorConfigFn, authProvider, rootPath, app,
                   router, builds, buildResult, requests>>

\* setErrorConfig(fn): this._errorConfigFn = fn; return this
setErrorConfig(fn) ==
    /\ errorConfigFn' = fn
    /\ ret' = "this"
    /\ trace' = Append(trace, [ev |-> "setErrorConfig", fn |-> fn])
    /\ UNCHANGED <<metaVars, controllers, configFn, authProvider, rootPath, app,
                   router, builds, buildResult, requests>>

----------------------------------------------------------------------------
(* InversifyKoaServer: resolveMiddleware, handlerFactory, registerControllers, build *)

\* resolveMiddleware for one item, handing out the resolved BaseMiddleware
\* instance itself in place of a wrapper around its handler.
resolveMiddlewareItemUnwrapped(middlewareItem) ==
    IF isBound(middlewareItem)
    THEN IF ~bindings[middlewareItem].resolves
         THEN [threw |-> TRUE, handler |-> None]
         ELSE [threw |-> FALSE, handler |-> bindings[middlewareItem].value]
    ELSE [threw |-> FALSE, handler |-> middlewareItem]

\* resolveMiddleware for one item, calling container.get without asking
\* isBound first: the lookup of an item that has no binding throws.
resolveMiddlewareItemGet(middlewareItem) ==
    IF isBound(middlewareItem) /\ bindings[middlewareItem].resolves
    THEN IF bindings[middlewareItem].value.tag = "BaseMiddleware"
         THEN [threw |-> FALSE,
               handler |-> [tag |-> "wrapper", id |-> bindings[middlewareItem].value.id]]
         ELSE [threw |-> FALSE, handler |-> bindings[middlewareItem].value]
    ELSE [threw |-> TRUE, handler |-> None]

\* resolveMiddleware, for one item of the list.  container.get of a bound item
\* may throw (threw); nothing here catches it.
resolveMiddlewareItem(middlewareItem) ==
    IF isBound(middlewareItem)
    THEN LET binding == bindings[middlewareItem]
             middlewareInstance == binding.value
         IN  IF ~binding.resolves
             THEN [threw |-> TRUE, handler |-> None]
             ELSE IF middlewareInstance.tag = "BaseMiddleware"
                  THEN [threw |-> FALSE,
                        handler |-> [tag |-> "wrapper", id |-> middlewareInstance.id]]
                  ELSE [threw |-> FALSE, handler |-> middlewareInstance]
    ELSE [threw |-> FALSE, handler |-> middlewareItem]

\* resolveMiddleware(...middleware): middleware.map(...)
resolveMiddleware(middleware) ==
    LET each == [i \in 1..Len(middleware) |-> resolveMiddlewareItem(middleware[i])]
        threw == \E i \in 1..Len(middleware) : each[i].threw
    IN  [threw |-> threw,
         handlers |-> IF threw THEN <<>>
                      ELSE [i \in 1..Len(middleware) |-> each[i].handler]]

\* handlerFactory(controllerName, key, parameterMetadata): the generated handler
\* closes over these three values and nothing else.
handlerFactory(controllerName, key, parameterMetadata) ==
    [tag |-> "handler", controllerName |-> controllerName, key |-> key,
     params |-> parameterMetadata]

\* The route path with the method's path put before the controller's.
routePathReversed(controllerPath, methodPath) == methodPath \o controllerPath

\* `${controllerMetadata.path}${metadata.path}`
routePath(controllerPath, methodPath) == controllerPath \o methodPath

\* The chain with the method's middleware put before the controller's.
routeChainMethodFirst(controllerMiddleware, routeMiddleware, handler) ==
    routeMiddleware \o controllerMiddleware \o <<handler>>

\* ...controllerMiddleware, ...routeMiddleware, handler
routeChain(controllerMiddleware, routeMiddleware, handler) ==
    controllerMiddleware \o routeMiddleware \o <<handler>>

\* paramList read under a fixed method name instead of metadata.key.
paramListOfClass(c, key) == parameterMeta[c]["m2"]

\* paramList of a method: parameterMetadata[metadata.key] || [] when the class
\* has parameter metadata, [] otherwise.
paramListOf(c, key) == parameterMeta[c][key]

\* The forEach body leaving out a route the router already holds.
registerMethodOnce(acc, n, controllerMetadata, metadata, controllerMiddleware) ==
    IF acc.threw THEN acc
    ELSE
    LET paramList == paramListOf(controllerMetadata.target, metadata.key)
        handler == handlerFactory(controllerMetadata.target, metadata.key, paramList)
        routeMiddleware == resolveMiddleware(metadata.middleware)
        route == [method |-> metadata.method,
                  path |-> routePath(controllerMetadata.path, metadata.path),
                  chain |-> routeChain(controllerMiddleware, routeMiddleware.handlers,
                                       handler)]
    IN  IF routeMiddleware.threw
        THEN [acc EXCEPT !.threw = TRUE]
        ELSE IF \E k \in 1..Len(acc.stack) : acc.stack[k] = route
        THEN acc
        ELSE [stack |-> Append(acc.stack, route),
              events |-> Append(acc.events,
                                [ev |-> "route", build |-> n, route |-> route]),
              threw |-> FALSE]

\* The forEach body resolving the controller's middleware again for its route.
registerMethodResolving(acc, n, controllerMetadata, metadata, controllerMiddleware) ==
    IF acc.threw THEN acc
    ELSE
    LET paramList == paramListOf(controllerMetadata.target, metadata.key)
        handler == handlerFactory(controllerMetadata.target, metadata.key, paramList)
        again == resolveMiddleware(controllerMetadata.middleware)
        againEv == [ev |-> "resolveMiddleware", build |-> n, level |-> "controller",
                    class |-> controllerMetadata.target,
                    input |-> controllerMetadata.middleware, threw |-> again.threw,
                    output |-> again.handlers]
        routeMiddleware == resolveMiddleware(metadata.middleware)
        resolveEv == [ev |-> "resolveMiddleware", build |-> n, level |-> "method",
                      class |-> controllerMetadata.target,
                      input |-> metadata.middleware, threw |-> routeMiddleware.threw,
                      output |-> routeMiddleware.handlers]
        route == [method |-> metadata.method,
                  path |-> routePath(controllerMetadata.path, metadata.path),
                  chain |-> routeChain(again.handlers, routeMiddleware.handlers,
                                       handler)]
    IN  IF again.threw \/ routeMiddleware.threw
        THEN [acc EXCEPT !.threw = TRUE, !.events = @ \o <<againEv, resolveEv>>]
        ELSE [stack |-> Append(acc.stack, route),
              events |-> acc.events \o
                         <<againEv, resolveEv,
                           [ev |-> "route", build |-> n, route |-> route]>>,
              threw |-> FALSE]

\* The body of methodMetadata.forEach for one method: acc is the router's stack,
\* the calls made so far, and whether an exception is propagating.
registerMethod(acc, n, controllerMetadata, metadata, controllerMiddleware) ==
    IF acc.threw THEN acc
    ELSE
    LET paramList == paramListOf(controllerMetadata.target, metadata.key)
        handler == handlerFactory(controllerMetadata.target, metadata.key, paramList)
        routeMiddleware == resolveMiddleware(metadata.middleware)
        resolveEv == [ev |-> "resolveMiddleware", build |-> n, level |-> "method",
                      class |-> controllerMetadata.target,
                      input |-> metadata.middleware, threw |-> routeMiddleware.threw,
                      output |-> routeMiddleware.handlers]
        route == [method |-> metadata.method,
                  path |-> routePath(controllerMetadata.path, metadata.path),
                  chain |-> routeChain(controllerMiddleware, routeMiddleware.handlers,
                                       handler)]
    IN  IF routeMiddleware.threw
        THEN [acc EXCEPT !.threw = TRUE, !.events = Append(@, resolveEv)]
        ELSE [stack |-> Append(acc.stack, route),
              events |-> acc.events \o
                         <<resolveEv, [ev |-> "route", build |-> n, route |-> route]>>,
              threw |-> FALSE]

RECURSIVE registerMethods(_, _, _, _, _, _)
registerMethods(acc, n, controllerMetadata, methodMetadata, controllerMiddleware, j) ==
    IF j > Len(methodMetadata) THEN acc
    ELSE registerMethods(
            registerMethod(acc, n, controllerMetadata, methodMetadata[j],
                           controllerMiddleware),
            n, controllerMetadata, methodMetadata, controllerMiddleware, j + 1)

\* The forEach body failing on a controller whose class lacks metadata.
registerControllerStrict(acc, n, c) ==
    IF acc.threw THEN acc
    ELSE IF controllerMeta[c] # None /\ methodMeta[c] # <<>>
    THEN LET controllerMiddleware == resolveMiddleware(controllerMeta[c].middleware)
         IN  IF controllerMiddleware.threw
             THEN [acc EXCEPT !.threw = TRUE]
             ELSE registerMethods(acc, n, controllerMeta[c], methodMeta[c],
                                  controllerMiddleware.handlers, 1)
    ELSE [acc EXCEPT !.threw = TRUE]

\* The body of controllers.forEach for one controller instance of class c.
registerController(acc, n, c) ==
    IF acc.threw THEN acc
    ELSE IF controllerMeta[c] # None /\ methodMeta[c] # <<>>
    THEN LET controllerMiddleware == resolveMiddleware(controllerMeta[c].middleware)
             resolveEv == [ev |-> "resolveMiddleware", build |-> n,
                           level |-> "controller", class |-> c,
                           input |-> controllerMeta[c].middleware,
                           threw |-> controllerMiddleware.threw,
                           output |-> controllerMiddleware.handlers]
             acc1 == [acc EXCEPT !.events = Append(@, resolveEv)]
         IN  IF controllerMiddleware.threw
             THEN [acc1 EXCEPT !.threw = TRUE]
             ELSE registerMethods(acc1, n, controllerMeta[c], methodMeta[c],
                                  controllerMiddleware.handlers, 1)
    ELSE acc

RECURSIVE registerAll(_, _, _)
registerAll(acc, n, i) ==
    IF i > Len(controllers) THEN acc
    ELSE registerAll(registerController(acc, n, controllers[i]), n, i + 1)

\* What a config function does with the application: it registers one
\* server-level middleware, as the config functions of the tests do.
applyConfigFn(fn, chain) == Append(chain, Fn(fn.id))

\* build(), as one step.  state is [app, router, events, threw].
buildPrincipal(state, n) ==
    LET mw == [tag |-> "principal", build |-> n]
    IN  [state EXCEPT !.app = Append(@, mw),
                      !.events = Append(@, [ev |-> "use", build |-> n, mw |-> mw])]

buildConfig(state, n) ==
    IF configFn # None
    THEN [state EXCEPT !.app = applyConfigFn(configFn, @),
                       !.events = Append(@, [ev |-> "configFn", build |-> n,
                                             fn |-> configFn])]
    ELSE state

buildRegisterControllers(state, n) ==
    LET prefixed == rootPath # DEFAULT_ROUTING_ROOT_PATH
        router1 == IF prefixed THEN [state.router EXCEPT !.prefix = rootPath]
                   ELSE state.router
        events1 == IF prefixed
                   THEN Append(state.events, [ev |-> "prefix", build |-> n,
                                              path |-> rootPath])
                   ELSE state.events
        acc == registerAll([stack |-> router1.stack, events |-> events1,
                            threw |-> FALSE], n, 1)
        mw == [tag |-> "router", build |-> n]
    IN  IF acc.threw
        THEN [state EXCEPT !.router = [router1 EXCEPT !.stack = acc.stack],
                           !.events = acc.events, !.threw = TRUE]
        ELSE [state EXCEPT !.router = [router1 EXCEPT !.stack = acc.stack],
                           !.app = Append(@, mw),
                           !.events = Append(acc.events,
                                             [ev |-> "use", build |-> n, mw |-> mw])]

buildErrorConfig(state, n) ==
    IF state.threw THEN state
    ELSE IF errorConfigFn # None
    THEN [state EXCEPT !.app = applyConfigFn(errorConfigFn, @),
                       !.events = Append(@, [ev |-> "errorConfigFn", build |-> n,
                                             fn |-> errorConfigFn])]
    ELSE state

\* build() with the error-config function invoked before the controllers are
\* registered.
buildStepsErrorFirst(state, n) ==
    buildRegisterControllers(buildErrorConfig(buildConfig(buildPrincipal(state, n), n), n), n)

buildSteps(state, n) ==
    buildErrorConfig(buildRegisterControllers(buildConfig(buildPrincipal(state, n), n), n), n)

build ==
    LET n == builds + 1
        start == [app |-> app, router |-> router,
                  events |-> Append(trace, [ev |-> "build", build |-> n]),
                  threw |-> FALSE]
        end == buildSteps(start, n)
    IN  /\ builds' = n
        /\ app' = end.app
        /\ router' = end.router
        /\ buildResult' = IF end.threw THEN "threw" ELSE "returned"
        /\ ret' = IF end.threw THEN ret ELSE "app"
        /\ trace' = Append(end.events,
                           [ev |-> IF end.threw THEN "throw" ELSE "return", build |-> n])
        /\ UNCHANGED <<metaVars, controllers, configFn, errorConfigFn, authProvider,
                       rootPath, requests>>

----------------------------------------------------------------------------
(* Handling a request.  Koa composes the application's middleware chain; the *)
(* router middleware runs, in registration order, the chains of the routes   *)
(* that match the request, and then the rest of the application's chain.     *)
(* Each element runs only when the one before it called its continuation.    *)

Str(id) == [tag |-> "string", id |-> id]

Null == [tag |-> "null"]

\* JavaScript truthiness of the values of the model.
truthy(v) == v \notin {None, Null, Str("")}

\* A promise that resolves to v.  A promise never resolves to a promise.
Promise(v) == [tag |-> "promise", value |-> v]

\* result instanceof Promise
isPromise(v) == v.tag = "promise"

\* The value of an expression that is not awaited.
notAwaited(v) == v

\* await v: the value a promise resolves to; v itself when it is no promise.
awaited(v) == IF isPromise(v) THEN v.value ELSE v

\* What a controller method throws.
Err(id) == [tag |-> "error", id |-> id]

\* The outcome of a method that throws e instead of returning.
Throw(e) == [tag |-> "throw", error |-> e]

\* A promise that rejects with e: awaiting it throws e.
Rejected(e) == [tag |-> "promise", value |-> Throw(e)]

\* A generated handler that catches what the awaited call throws.
thrownSwallowed(outcome) == None

\* const result = await ...[key](...args): what the await throws out of the
\* generated handler, which has no try/catch; None when it throws nothing.
thrown(outcome) == IF outcome.tag = "throw" THEN outcome.error ELSE None

Roles == {"role a", "role b"}

\* The principals an auth provider may return for a request: what
\* isAuthenticated resolves to, the roles isInRole resolves true for, what
\* isResourceOwner resolves to, and whose object it is.
Principals == [from : {"provider"}, details : {Null}, authenticated : BOOLEAN,
               roles : SUBSET Roles, owner : BOOLEAN]

\* The default principal of _getCurrentPrincipal: isAuthenticated, isInRole and
\* isResourceOwner all resolve false.
defaultPrincipal == [from |-> "default", details |-> Null, authenticated |-> FALSE,
                     roles |-> {}, owner |-> FALSE]

\* _getCurrentPrincipal giving the default principal whatever the server was
\* constructed with.
getDefaultPrincipal(provided) == defaultPrincipal

\* _getCurrentPrincipal(ctx): the auth provider's principal for this request
\* when an auth provider class was given, the default principal otherwise.
getCurrentPrincipal(provided) ==
    IF authProvider # None THEN provided ELSE defaultPrincipal

\* koa-router: the routes of the stack that match the request.
matches(route, method, path) ==
    route.path = path /\ route.method \in {method, "all"}

RECURSIVE matchedChain(_, _, _, _)
matchedChain(stack, method, path, i) ==
    IF i > Len(stack) THEN <<>>
    ELSE (IF matches(stack[i], method, path) THEN stack[i].chain ELSE <<>>)
         \o matchedChain(stack, method, path, i + 1)

\* The chain one request runs through: the application's chain with each
\* router middleware replaced by the chains of the matching routes.
RECURSIVE requestChain(_, _, _)
requestChain(method, path, i) ==
    IF i > Len(app) THEN <<>>
    ELSE (IF app[i].tag = "router"
          THEN matchedChain(router.stack, method, path, 1)
          ELSE <<app[i]>>)
         \o requestChain(method, path, i + 1)

\* Koa: a fresh context answers 404 until a body is assigned.
freshCtx == [principal |-> None, status |-> 404, body |-> None, headerSent |-> FALSE]

\* Koa: assigning ctx.body sets the status to 200.
setBody(ctx, value) == [ctx EXCEPT !.body = value, !.status = 200]

----------------------------------------------------------------------------
(* Parameter extraction.  The objects of a request are named by references;  *)
(* what a request carries is `data`: the names of the fields present in its  *)
(* query string, headers, cookies and body, and whether a body parser has    *)
(* put a parsed body on the request.                                         *)

Ref(id) == [tag |-> "object", id |-> id]

\* The continuation handed to the generated handler.
NextFn == Fn("next")

Names == {"default", "id", "get"}

RequestData == [fields : SUBSET Names, parsed : BOOLEAN]

noData == [fields |-> {}, parsed |-> FALSE]

\* The values a query string, the headers or a parsed body carry under the
\* names in fields.  The value under the name "get" is the empty string, as in
\* ?get= or an empty header: a field that is present and falsy.
collection(kind, fields) ==
    [n \in fields |-> IF n = "get" THEN Str("") ELSE Str(kind \o "." \o n)]

\* The properties of the objects of a request that parameter extraction can
\* read: Koa's context, request, response and cookies accessor, koa-router's
\* params of the route ":id", and the collections the request carries.
properties(data, obj) ==
    CASE obj = Ref("ctx") ->
            [request |-> Ref("request"), response |-> Ref("response"),
             params |-> Ref("params"), query |-> Ref("query"),
             cookies |-> Ref("cookies"), get |-> Fn("ctx.get")]
      [] obj = Ref("request") ->
            IF data.parsed
            THEN [body |-> Ref("body"), headers |-> Ref("headers"),
                  get |-> Fn("request.get")]
            ELSE [headers |-> Ref("headers"), get |-> Fn("request.get")]
      [] obj = Ref("response") -> [get |-> Fn("response.get")]
      [] obj = Ref("cookies") -> [get |-> Fn("cookies.get"), set |-> Fn("cookies.set")]
      [] obj = Ref("params") -> [id |-> Str("params.id")]
      [] obj = Ref("query") -> collection("query", data.fields)
      [] obj = Ref("headers") -> collection("headers", data.fields)
      [] obj = Ref("body") -> collection("body", data.fields)

\* obj[name]: undefined when the object has no such property.
property(data, obj, name) ==
    IF name \in DOMAIN properties(data, obj) THEN properties(data, obj)[name] ELSE None

\* ctx.cookies.get(name): the cookie's value, undefined when the request
\* carries no such cookie.
cookiesGet(data, name) ==
    IF name \in data.fields THEN Str("cookie." \o name) ELSE None

\* checkQueryParam that gives undefined wherever it does not read a cookie.
checkQueryParamUndefined(data, paramType, param, name) ==
    IF paramType = "cookies" THEN cookiesGet(data, name) ELSE None

\* checkQueryParam(paramType, param, name)
checkQueryParam(data, paramType, param, name) ==
    IF paramType = "query" THEN None
    ELSE IF paramType = "cookies" THEN cookiesGet(data, name)
    ELSE param

\* getParam giving the named field and nothing else.
getParamField(data, source, paramType, name) ==
    LET param == IF truthy(property(data, source, paramType))
                 THEN property(data, source, paramType)
                 ELSE source
    IN  property(data, param, name)

\* getParam(source, paramType, name); a null paramType reads source["null"].
getParam(data, source, paramType, name) ==
    LET param == IF truthy(property(data, source, paramType))
                 THEN property(data, source, paramType)
                 ELSE source
    IN  IF truthy(property(data, param, name))
        THEN property(data, param, name)
        ELSE checkQueryParam(data, paramType, param, name)

\* extractParameters: the switch on item.type.
paramValue(data, item) ==
    CASE item.type = "RESPONSE" -> getParam(data, Ref("response"), "null", item.parameterName)
      [] item.type = "REQUEST" -> getParam(data, Ref("request"), "null", item.parameterName)
      [] item.type = "NEXT" -> NextFn
      [] item.type = "CTX" -> getParam(data, Ref("ctx"), "null", item.parameterName)
      [] item.type = "PARAMS" -> getParam(data, Ref("ctx"), "params", item.parameterName)
      [] item.type = "QUERY" -> getParam(data, Ref("ctx"), "query", item.parameterName)
      [] item.type = "BODY" -> getParam(data, Ref("request"), "body", item.parameterName)
      [] item.type = "HEADERS" -> getParam(data, Ref("request"), "headers", item.parameterName)
      [] item.type = "COOKIES" -> getParam(data, Ref("ctx"), "cookies", item.parameterName)
      [] OTHER -> Ref("ctx")

\* The array filled in the order of the list (args.push) instead of by index.
argsInListOrder(data, parameters) ==
    [i \in 1..Len(parameters) |-> paramValue(data, parameters[i])]

\* The array the loop `args[item.index] = ...` leaves: position index + 1 holds
\* the value of the last item with that index, undefined where there is none.
argsArray(data, parameters) ==
    LET size == 1 + CHOOSE m \in {parameters[k].index : k \in 1..Len(parameters)} :
                       \A k \in 1..Len(parameters) : parameters[k].index <= m
        writers(i) == { k \in 1..Len(parameters) : parameters[k].index = i - 1 }
    IN  [i \in 1..size |->
            IF writers(i) = {} THEN None
            ELSE paramValue(data, parameters[CHOOSE k \in writers(i) :
                                                \A l \in writers(i) : l <= k])]

\* extractParameters(ctx, next, params)
extractParameters(data, parameters) ==
    IF Len(parameters) = 0 THEN <<Ref("ctx"), NextFn>>
    ELSE argsArray(data, parameters) \o <<Ref("ctx"), NextFn>>

----------------------------------------------------------------------------
(* The steps of a request.                                                   *)

\* A request arrives: the auth provider would return `provided` for it.
receive(method, path, provided, data) ==
    /\ requests' = Append(requests,
            [method |-> method, path |-> path, provided |-> provided, data |-> data,
             chain |-> requestChain(method, path, 1), pos |-> 1,
             ctx |-> freshCtx, invoked |-> <<>>, pending |-> None,
             settled |-> 0, returns |-> <<>>, calls |-> 0, observed |-> <<>>,
             nexts |-> <<>>, failure |-> None, done |-> FALSE])
    /\ UNCHANGED <<metaVars, controllers, serverVars>>

current(r) == requests[r].chain[requests[r].pos]

\* pos is the next element to run; the elements before pos have run, and
\* nexts tells of each whether it invoked its continuation.  failure is what
\* the chain threw to the host application.  While the generated handler
\* awaits a promise nothing else of the chain runs.
running(r) ==
    /\ r \in 1..Len(requests)
    /\ ~requests[r].done
    /\ requests[r].pending = None
    /\ requests[r].pos <= Len(requests[r].chain)

\* The middleware build() installs first:
\*   ctx.state.principal = await _self._getCurrentPrincipal(ctx); await next();
principalMiddleware(r) ==
    /\ running(r)
    /\ current(r).tag = "principal"
    /\ requests' = [requests EXCEPT
            ![r].ctx.principal = getCurrentPrincipal(requests[r].provided),
            ![r].calls = @ + 1,
            ![r].nexts = Append(@, TRUE),
            ![r].pos = @ + 1]
    /\ UNCHANGED <<metaVars, controllers, serverVars>>

\* The same middleware with its suspension point: it calls
\* _getCurrentPrincipal(ctx) and awaits the promise, and other requests may run
\* before principalStores assigns the result to this request's ctx.state.
principalAwaits(r) ==
    /\ running(r)
    /\ current(r).tag = "principal"
    /\ requests' = [requests EXCEPT
            ![r].pending = [tag |-> "principal",
                            value |-> getCurrentPrincipal(requests[r].provided)],
            ![r].calls = @ + 1]
    /\ UNCHANGED <<metaVars, controllers, serverVars>>

\* The assignment taking the principal most recently asked for by any request,
\* as if the server kept the awaited principal in a field of its own.
principalStoresLatest(r) ==
    /\ r \in 1..Len(requests)
    /\ requests[r].pending.tag = "principal"
    /\ LET waiting == { x \in 1..Len(requests) : requests[x].pending.tag = "principal" }
           latest == CHOOSE x \in waiting : \A y \in waiting : y <= x
       IN  requests' = [requests EXCEPT
                ![r].ctx.principal = requests[latest].pending.value,
                ![r].pending = None,
                ![r].nexts = Append(@, TRUE),
                ![r].pos = @ + 1]
    /\ UNCHANGED <<metaVars, controllers, serverVars>>

\* ctx.state.principal = (the awaited principal); await next();
principalStores(r) ==
    /\ r \in 1..Len(requests)
    /\ requests[r].pending.tag = "principal"
    /\ requests' = [requests EXCEPT
            ![r].ctx.principal = requests[r].pending.value,
            ![r].pending = None,
            ![r].nexts = Append(@, TRUE),
            ![r].pos = @ + 1]
    /\ UNCHANGED <<metaVars, controllers, serverVars>>

\* An application's middleware after whose return the chain goes on whether
\* or not it called its continuation.
userMiddlewareContinues(r, callsNext) ==
    /\ running(r)
    /\ current(r).tag \in {"function", "wrapper", "symbol"}
    /\ requests' = [requests EXCEPT
            ![r].observed = Append(@, requests[r].ctx.principal),
            ![r].nexts = Append(@, callsNext),
            ![r].pos = @ + 1]
    /\ UNCHANGED <<metaVars, controllers, serverVars>>

\* An application's own middleware (server-, controller- or method-level): it
\* reads ctx.state.principal, and calls its continuation, or answers by itself
\* and does not.
userMiddleware(r, callsNext) ==
    /\ running(r)
    /\ current(r).tag \in {"function", "wrapper", "symbol"}
    /\ requests' = [requests EXCEPT
            ![r].observed = Append(@, requests[r].ctx.principal),
            ![r].nexts = Append(@, callsNext),
            ![r].pos = @ + 1,
            ![r].done = ~callsNext]
    /\ UNCHANGED <<metaVars, controllers, serverVars>>

\* The instance of class c that getAll(TYPE.Controller) gave build().
controllerBuilt(c) ==
    [tag |-> "instance", class |-> c, via |-> "getAll", lookup |-> 0]

\* A generated handler that calls the method on the instance build() obtained.
controllerCaptured(controllerName, k) == controllerBuilt(controllerName)

\* this._container.getNamed(TYPE.Controller, controllerName): the instance the
\* generated handler calls the method on, obtained by the lookup it makes for
\* invocation number k of the request.
controllerLookup(controllerName, k) ==
    [tag |-> "instance", class |-> controllerName, via |-> "getNamed", lookup |-> k]

\* getNamed(TYPE.Controller, controllerName)[key](...args): the controller
\* method runs with the extracted arguments; it assigns `written` to ctx.body
\* when `written` is a value, sends the response itself when `sent`, and
\* returns `returned`.  Gives the context and the invocations made, afterwards.
methodCall(handler, q, returned, written, sent) ==
    LET ctx1 == IF written # None THEN setBody(q.ctx, written) ELSE q.ctx
    IN  [ctx |-> IF sent THEN [ctx1 EXCEPT !.headerSent = TRUE] ELSE ctx1,
         invoked |-> Append(q.invoked,
                        [controllerName |-> handler.controllerName,
                         key |-> handler.key,
                         instance |-> controllerLookup(handler.controllerName,
                                                       Len(q.invoked) + 1),
                         args |-> extractParameters(q.data, handler.params),
                         result |-> returned, written |-> written, sent |-> sent,
                         principal |-> q.ctx.principal])]

\* The generated handler writing a present result whether or not the response
\* headers were sent.
handlerFinishAlways(ctx, result) ==
    IF truthy(result) /\ isPromise(result)
    THEN [ctx |-> ctx, returns |-> result]
    ELSE IF truthy(result)
    THEN [ctx |-> setBody(ctx, result), returns |-> None]
    ELSE [ctx |-> ctx, returns |-> None]

\* The generated handler handing its result on as its own return value.
handlerFinishReturns(ctx, result) ==
    IF truthy(result) /\ ~isPromise(result) /\ ~ctx.headerSent
    THEN [ctx |-> setBody(ctx, result), returns |-> result]
    ELSE [ctx |-> ctx, returns |-> result]

\* The generated handler after its await, result being the awaited value:
\*   if (result && result instanceof Promise) return result;
\*   else if (result && !ctx.headerSent) ctx.body = result;
handlerFinish(ctx, result) ==
    IF truthy(result) /\ isPromise(result)
    THEN [ctx |-> ctx, returns |-> result]
    ELSE IF truthy(result) /\ ~ctx.headerSent
    THEN [ctx |-> setBody(ctx, result), returns |-> None]
    ELSE [ctx |-> ctx, returns |-> None]

\* handlerRun with a gate that asks for an authenticated principal on every
\* route, whether or not a requirement is declared for it.
handlerRunGated(handler, q, returned, written, sent) ==
    IF ~q.ctx.principal.authenticated
    THEN [ctx |-> [q.ctx EXCEPT !.status = 401], invoked |-> q.invoked,
          returns |-> None]
    ELSE [ctx |-> handlerFinish(methodCall(handler, q, returned, written, sent).ctx,
                                awaited(returned)).ctx,
          invoked |-> methodCall(handler, q, returned, written, sent).invoked,
          returns |-> None]

\* The generated invocation handler, from its call to its return, for request
\* record q.  Nothing in it reads the authorization metadata or the principal.
\* Gives the context, the invocations made and its own return value.
handlerRun(handler, q, returned, written, sent) ==
    LET called == methodCall(handler, q, returned, written, sent)
        finish == handlerFinish(called.ctx, awaited(returned))
    IN  [ctx |-> finish.ctx, invoked |-> called.invoked, returns |-> finish.returns]

\* The generated invocation handler of a route, as one step of a request when
\* the method returns a value; when the method returns a promise, the step
\* ends at the await and handlerResume is the rest.
invocationHandler(r, returned, written, sent, callsNext) ==
    /\ running(r)
    /\ current(r).tag = "handler"
    /\ IF isPromise(returned)
       THEN LET called == methodCall(current(r), requests[r], returned, written, sent)
            IN  requests' = [requests EXCEPT
                    ![r].ctx = called.ctx,
                    ![r].invoked = called.invoked,
                    ![r].pending = returned]
       ELSE IF thrown(returned) # None
       THEN LET called == methodCall(current(r), requests[r], returned, written, sent)
            IN  requests' = [requests EXCEPT
                    ![r].ctx = called.ctx,
                    ![r].invoked = called.invoked,
                    ![r].failure = thrown(returned),
                    ![r].nexts = Append(@, FALSE),
                    ![r].pos = @ + 1,
                    ![r].done = TRUE]
       ELSE LET after == handlerRun(current(r), requests[r], returned, written, sent)
            IN  requests' = [requests EXCEPT
                    ![r].ctx = after.ctx,
                    ![r].invoked = after.invoked,
                    ![r].returns = Append(@, after.returns),
                    ![r].nexts = Append(@, callsNext),
                    ![r].pos = @ + 1,
                    ![r].done = ~callsNext]
    /\ UNCHANGED <<metaVars, controllers, serverVars>>

\* The number of promises the controller methods returned to request q.
promises(q) ==
    Cardinality({ k \in 1..Len(q.invoked) : isPromise(q.invoked[k].result) })

\* The promise the controller method returned settles.
promiseSettles(r) ==
    /\ r \in 1..Len(requests)
    /\ isPromise(requests[r].pending)
    /\ requests[r].settled < promises(requests[r])
    /\ requests' = [requests EXCEPT ![r].settled = @ + 1]
    /\ UNCHANGED <<metaVars, controllers, serverVars>>

\* The generated handler continues after its await, once the promise settled:
\* a rejection is thrown out of the handler, a value is handled as a result.
handlerResume(r, callsNext) ==
    /\ r \in 1..Len(requests)
    /\ isPromise(requests[r].pending)
    /\ requests[r].settled = promises(requests[r])
    /\ IF thrown(awaited(requests[r].pending)) # None
       THEN requests' = [requests EXCEPT
                ![r].failure = thrown(awaited(requests[r].pending)),
                ![r].pending = None,
                ![r].nexts = Append(@, FALSE),
                ![r].pos = @ + 1,
                ![r].done = TRUE]
       ELSE LET finish == handlerFinish(requests[r].ctx, awaited(requests[r].pending))
            IN  requests' = [requests EXCEPT
                    ![r].ctx = finish.ctx,
                    ![r].returns = Append(@, finish.returns),
                    ![r].pending = None,
                    ![r].nexts = Append(@, callsNext),
                    ![r].pos = @ + 1,
                    ![r].done = ~callsNext]
    /\ UNCHANGED <<metaVars, controllers, serverVars>>

\* The chain ran to its end: Koa answers with the context as it is.
respond(r) ==
    /\ r \in 1..Len(requests)
    /\ ~requests[r].done
    /\ requests[r].pos > Len(requests[r].chain)
    /\ requests' = [requests EXCEPT ![r].done = TRUE]
    /\ UNCHANGED <<metaVars, controllers, serverVars>>

----------------------------------------------------------------------------
(* Initial states: the server as its constructor leaves it.                  *)

AuthProviderClass == [tag |-> "class", id |-> "TestAuthProvider"]

InitWith(authProviders, rootPaths, apps) ==
    /\ controllerMeta = [c \in Classes |-> None]
    /\ methodMeta = [c \in Classes |-> <<>>]
    /\ authorizeAllMeta = [c \in Classes |-> None]
    /\ authorizeMeta = [c \in Classes |-> [k \in Keys |-> None]]
    /\ parameterMeta = [c \in Classes |-> [k \in Keys |-> <<>>]]
    /\ controllers = <<>>
    /\ configFn = None
    /\ errorConfigFn = None
    /\ authProvider \in authProviders
    /\ rootPath \in rootPaths
    /\ app \in apps
    /\ router = [prefix |-> "", stack |-> <<>>]
    /\ builds = 0
    /\ buildResult = "none"
    /\ ret = "none"
    /\ trace = <<>>
    /\ requests = <<>>

\* customApp || new Koa(): a fresh application, or the caller's own, which may
\* already hold middleware.
Apps == {<<>>, <<Fn("custom")>>}

bound(c) == \E i \in 1..Len(controllers) : controllers[i] = c

----------------------------------------------------------------------------
(* SpecBuild: classes are decorated and bound, then build() compiles them.   *)

ControllerDecls ==
    { [path |-> "/",  middleware |-> <<>>],
      [path |-> "/a", middleware |-> <<Fn("fnA"), Fn("fnB"), Sym("idBase")>>],
      [path |-> "/b", middleware |-> <<Sym("idFree"), Sym("idValue")>>],
      [path |-> "/c", middleware |-> <<Sym("idBroken")>>] }

MethodDecls ==
    { [method |-> "get",  path |-> "/",   middleware |-> <<>>, key |-> "m1"],
      [method |-> "post", path |-> ":id", middleware |-> <<Sym("idValue")>>, key |-> "m2"],
      [method |-> "all",  path |-> "/",   middleware |-> <<Fn("fnB"), Sym("idBroken")>>,
       key |-> "m1"] }

InitBuild == InitWith({None}, {DEFAULT_ROUTING_ROOT_PATH}, {<<>>})

NextBuild ==
    \/ \E c \in Classes, d \in ControllerDecls :
          builds = 0 /\ controllerMeta[c] = None /\ controller(c, d.path, d.middleware)
    \/ \E c \in Classes, d \in MethodDecls :
          /\ builds = 0
          /\ Len(getMetadataList(methodMeta, c)) < MaxMethods
          /\ httpMethod(c, d.method, d.path, d.middleware, d.key)
    \/ \E c \in Classes : builds = 0 /\ ~bound(c) /\ bindController(c)
    \/ builds = 0 /\ controllers # <<>> /\ build

SpecBuild == InitBuild /\ [][NextBuild]_vars

----------------------------------------------------------------------------
(* SpecConfig: setConfig and setErrorConfig calls, and up to MaxBuilds       *)
(* build() calls, on a server with a fresh or a caller-supplied application. *)

ConfigFns == {Fn("cfgA"), Fn("cfgB")}

ConfigControllerDecls ==
    { [path |-> "/", middleware |-> <<Fn("fnA")>>],
      [path |-> "/", middleware |-> <<Sym("idBroken")>>] }

sets == Len(SelectSeq(trace, LAMBDA e : e.ev \in {"setConfig", "setErrorConfig"}))

InitConfig == InitWith({None}, {DEFAULT_ROUTING_ROOT_PATH}, Apps)

NextConfig ==
    \/ \E d \in ConfigControllerDecls :
          builds = 0 /\ controllerMeta["A"] = None /\ controller("A", d.path, d.middleware)
    \/ /\ builds = 0
       /\ getMetadataList(methodMeta, "A") = <<>>
       /\ httpMethod("A", "get", "/", <<>>, "m1")
    \/ \E c \in Classes : builds = 0 /\ controllers = <<>> /\ bindController(c)
    \/ \E fn \in ConfigFns : sets < MaxSets /\ setConfig(fn)
    \/ \E fn \in ConfigFns : sets < MaxSets /\ setErrorConfig(fn)
    \/ builds < MaxBuilds /\ controllers # <<>> /\ build

SpecConfig == InitConfig /\ [][NextConfig]_vars

----------------------------------------------------------------------------
(* SpecAuth: a controller whose routes may carry @authorize, under a class   *)
(* that may carry @authorizeAll, is built and then serves requests, with or  *)
(* without an auth provider.                                                 *)

RoleLists == {<<>>, <<"role a", "role b">>}

AuthControllerDecls ==
    { [path |-> "/", middleware |-> <<>>],
      [path |-> "/", middleware |-> <<Fn("fnA")>>] }

Results == {None, Str("foo")}
Written == {None, Str("GET")}

decorated(c, key) ==
    \E j \in 1..Len(methodMeta[c]) : methodMeta[c][j].key = key

\* The principals the auth provider of SpecAuth returns: one that is not
\* authenticated is in no role and owns no resource.
AuthPrincipals ==
    { p \in Principals : ~p.authenticated => (p.roles = {} /\ ~p.owner) }

InitAuth == InitWith({None, AuthProviderClass}, {DEFAULT_ROUTING_ROOT_PATH}, {<<>>})

NextAuth ==
    \/ \E d \in AuthControllerDecls :
          builds = 0 /\ controllerMeta["A"] = None /\ controller("A", d.path, d.middleware)
    \/ /\ builds = 0
       /\ ~decorated("A", "m1")
       /\ httpMethod("A", "get", ":id", <<>>, "m1")
    \/ \E roles \in RoleLists :
          builds = 0 /\ authorizeAllMeta["A"] = None /\ authorizeAll("A", roles)
    \/ \E key \in Keys, roles \in RoleLists :
          builds = 0 /\ authorizeMeta["A"][key] = None /\ authorize("A", key, roles)
    \/ builds = 0 /\ controllers = <<>> /\ bindController("A")
    \/ builds = 0 /\ controllers # <<>> /\ build
    \/ \E p \in (IF authProvider = None THEN {defaultPrincipal} ELSE AuthPrincipals) :
          /\ buildResult = "returned"
          /\ Len(requests) < MaxRequests
          /\ \A r \in 1..Len(requests) : requests[r].done
          /\ receive("get", "/:id", p, noData)
    \/ \E r \in 1..Len(requests) : principalMiddleware(r)
    \/ \E r \in 1..Len(requests), callsNext \in BOOLEAN : userMiddleware(r, callsNext)
    \/ \E r \in 1..Len(requests), result \in Results, written \in Written,
          callsNext \in BOOLEAN : invocationHandler(r, result, written, FALSE, callsNext)
    \/ \E r \in 1..Len(requests) : respond(r)

SpecAuth == InitAuth /\ [][NextAuth]_vars

----------------------------------------------------------------------------
(* SpecParams: the parameters of a route's method are decorated, in any      *)
(* order, the server is built and serves one request carrying some data.     *)

ParamTypes == {"REQUEST", "RESPONSE", "PARAMS", "QUERY", "BODY", "HEADERS",
               "COOKIES", "NEXT", "CTX"}

\* The name handed to a parameter decorator; "" when none is.
NameArgs == {"", "id", "get"}

Indexes == {0, 1}

decoratedAt(c, key, index) ==
    \E j \in 1..Len(parameterMeta[c][key]) : parameterMeta[c][key][j].index = index

InitParams == InitWith({None}, {DEFAULT_ROUTING_ROOT_PATH}, {<<>>})

NextParams ==
    \/ builds = 0 /\ controllerMeta["A"] = None /\ controller("A", "/", <<>>)
    \/ /\ builds = 0
       /\ ~decorated("A", "m1")
       /\ httpMethod("A", "get", ":id", <<>>, "m1")
    \/ \E type \in ParamTypes, name \in NameArgs, index \in Indexes :
          /\ builds = 0
          /\ ~decoratedAt("A", "m1", index)
          /\ paramDecoratorFactory("A", "m1", type, name, index)
    \/ /\ builds = 0
       /\ ~decoratedAt("A", "m2", 0)
       /\ paramDecoratorFactory("A", "m2", "CTX", "", 0)
    \/ builds = 0 /\ controllers = <<>> /\ bindController("A")
    \/ builds = 0 /\ controllers # <<>> /\ build
    \/ \E data \in RequestData :
          /\ buildResult = "returned"
          /\ router.stack # <<>>
          /\ requests = <<>>
          /\ receive("get", "/:id", defaultPrincipal, data)
    \/ \E r \in 1..Len(requests) : principalMiddleware(r)
    \/ \E r \in 1..Len(requests), callsNext \in BOOLEAN :
          invocationHandler(r, None, None, FALSE, callsNext)
    \/ \E r \in 1..Len(requests) : respond(r)

SpecParams == InitParams /\ [][NextParams]_vars

----------------------------------------------------------------------------
(* SpecHandler: two routes match one request; each controller method may     *)
(* assign ctx.body, send the response itself, call its continuation, and     *)
(* return a value or a promise.                                              *)

Values == {None, Null, Str(""), Str("foo"), Str("bar")}

Errors == {Err("boom")}

\* What a controller method may do at its end: return a value, return a
\* promise of a value, throw, or return a promise that rejects.
Returned ==
    Values \cup { Promise(v) : v \in Values }
           \cup { Throw(e) : e \in Errors } \cup { Rejected(e) : e \in Errors }

InitHandler == InitWith({None}, {DEFAULT_ROUTING_ROOT_PATH}, {<<>>})

NextHandler ==
    \/ builds = 0 /\ controllerMeta["A"] = None /\ controller("A", "/", <<>>)
    \/ \E key \in Keys :
          /\ builds = 0
          /\ ~decorated("A", key)
          /\ httpMethod("A", "get", ":id", <<>>, key)
    \/ builds = 0 /\ controllers = <<>> /\ bindController("A")
    \/ builds = 0 /\ controllers # <<>> /\ build
    \/ /\ buildResult = "returned"
       /\ requests = <<>>
       /\ receive("get", "/:id", defaultPrincipal, noData)
    \/ \E r \in 1..Len(requests) : principalMiddleware(r)
    \/ \E r \in 1..Len(requests), returned \in Returned, written \in Written,
          sent \in BOOLEAN, callsNext \in BOOLEAN :
          invocationHandler(r, returned, written, sent, callsNext)
    \/ \E r \in 1..Len(requests) : promiseSettles(r)
    \/ \E r \in 1..Len(requests), callsNext \in BOOLEAN : handlerResume(r, callsNext)
    \/ \E r \in 1..Len(requests) : respond(r)

SpecHandler == InitHandler /\ [][NextHandler]_vars

----------------------------------------------------------------------------
(* SpecRebuild: controllers with and without metadata are bound, a config    *)
(* and an error-config function may be set, and build() is called up to      *)
(* MaxBuilds times on the one server, with or without a root path.           *)

InitRebuild == InitWith({None}, {DEFAULT_ROUTING_ROOT_PATH, "/api/v1"}, {<<>>})

NextRebuild ==
    \/ \E d \in ConfigControllerDecls :
          builds = 0 /\ controllerMeta["A"] = None /\ controller("A", d.path, d.middleware)
    \/ \E key \in Keys :
          /\ builds = 0
          /\ ~decorated("A", key)
          /\ httpMethod("A", "get", "/", <<>>, key)
    \/ \E c \in Classes : builds = 0 /\ ~bound(c) /\ bindController(c)
    \/ configFn = None /\ setConfig(Fn("cfgA"))
    \/ errorConfigFn = None /\ setErrorConfig(Fn("cfgB"))
    \/ builds < MaxBuilds /\ controllers # <<>> /\ build

SpecRebuild == InitRebuild /\ [][NextRebuild]_vars

----------------------------------------------------------------------------
(* SpecDecorators: @authorizeAll and @authorize are applied, any number of   *)
(* times, to the classes and their methods.                                  *)

DecoratorRoleLists == {<<"role a", "role b">>, <<"foo", "bar">>, <<"bar", "foo">>}

InitDecorators == InitWith({None}, {DEFAULT_ROUTING_ROOT_PATH}, {<<>>})

NextDecorators ==
    \/ \E c \in Classes, roles \in DecoratorRoleLists : authorizeAll(c, roles)
    \/ \E c \in Classes, key \in Keys, roles \in DecoratorRoleLists :
          authorize(c, key, roles)

SpecDecorators == InitDecorators /\ [][NextDecorators]_vars

----------------------------------------------------------------------------
(* SpecChain: a config function installs a server-level middleware, the      *)
(* controller and its methods may carry middleware named by identifiers of   *)
(* the container, and both methods are routes of the same verb and path;     *)
(* one request runs through the chain.                                       *)

ChainControllerDecls ==
    { [path |-> "/", middleware |-> <<>>],
      [path |-> "/", middleware |-> <<Sym("idValue")>>] }

ChainMiddleware == {<<>>, <<Sym("idBase")>>}

ChainReturned == {None, Promise(Str("foo"))}

InitChain == InitWith({None}, {DEFAULT_ROUTING_ROOT_PATH}, {<<>>})

NextChain ==
    \/ builds = 0 /\ configFn = None /\ setConfig(Fn("cfgA"))
    \/ \E d \in ChainControllerDecls :
          builds = 0 /\ controllerMeta["A"] = None /\ controller("A", d.path, d.middleware)
    \/ \E key \in Keys, middleware \in ChainMiddleware :
          /\ builds = 0
          /\ ~decorated("A", key)
          /\ httpMethod("A", "get", ":id", middleware, key)
    \/ builds = 0 /\ controllers = <<>> /\ bindController("A")
    \/ builds = 0 /\ controllers # <<>> /\ build
    \/ /\ buildResult = "returned"
       /\ requests = <<>>
       /\ receive("get", "/:id", defaultPrincipal, noData)
    \/ \E r \in 1..Len(requests) : principalMiddleware(r)
    \/ \E r \in 1..Len(requests), callsNext \in BOOLEAN : userMiddleware(r, callsNext)
    \/ \E r \in 1..Len(requests), returned \in ChainReturned, callsNext \in BOOLEAN :
          invocationHandler(r, returned, None, FALSE, callsNext)
    \/ \E r \in 1..Len(requests) : promiseSettles(r)
    \/ \E r \in 1..Len(requests), callsNext \in BOOLEAN : handlerResume(r, callsNext)
    \/ \E r \in 1..Len(requests) : respond(r)

SpecChain == InitChain /\ [][NextChain]_vars

----------------------------------------------------------------------------
(* SpecConcurrent: up to MaxConcurrent requests are in flight at once on a   *)
(* server with an auth provider; each carries its own principal and query    *)
(* string, and their steps interleave at every await.                        *)

ConcurrentPrincipals ==
    { p \in Principals : p.roles = {} /\ ~p.owner }

ConcurrentData == { d \in RequestData : d.fields \in {{}, {"id"}} /\ ~d.parsed }

InitConcurrent == InitWith({AuthProviderClass}, {DEFAULT_ROUTING_ROOT_PATH}, {<<>>})

NextConcurrent ==
    \/ builds = 0 /\ controllerMeta["A"] = None /\ controller("A", "/", <<>>)
    \/ /\ builds = 0
       /\ ~decorated("A", "m1")
       /\ httpMethod("A", "get", ":id", <<>>, "m1")
    \/ /\ builds = 0
       /\ ~decoratedAt("A", "m1", 0)
       /\ paramDecoratorFactory("A", "m1", "QUERY", "id", 0)
    \/ builds = 0 /\ controllers = <<>> /\ bindController("A")
    \/ builds = 0 /\ controllers # <<>> /\ build
    \/ \E p \in ConcurrentPrincipals, data \in ConcurrentData :
          /\ buildResult = "returned"
          /\ router.stack # <<>>
          /\ parameterMeta["A"]["m1"] # <<>>
          /\ Len(requests) < MaxConcurrent
          /\ receive("get", "/:id", p, data)
    \/ \E r \in 1..Len(requests) : principalAwaits(r)
    \/ \E r \in 1..Len(requests) : principalStores(r)
    \/ \E r \in 1..Len(requests), returned \in ChainReturned :
          invocationHandler(r, returned, None, FALSE, TRUE)
    \/ \E r \in 1..Len(requests) : promiseSettles(r)
    \/ \E r \in 1..Len(requests) : handlerResume(r, TRUE)
    \/ \E r \in 1..Len(requests) : respond(r)

SpecConcurrent == InitConcurrent /\ [][NextConcurrent]_vars

----------------------------------------------------------------------------
(* Claims about authorization (SpecAuth)                                     *)

\* The requirement that applies to a route's method: the method's own
\* @authorize record, or the class's @authorizeAll record when it has none.
requirement(h) ==
    IF authorizeMeta[h.controllerName][h.key] # None
    THEN authorizeMeta[h.controllerName][h.key]
    ELSE authorizeAllMeta[h.controllerName]

\* The invocation handlers that have run for request r, as positions of its chain.
ranHandlers(r) ==
    { i \in 1..Len(requests[r].chain) :
        i < requests[r].pos /\ requests[r].chain[i].tag = "handler" }

\* The invocations request r made of the method of handler h.
invocations(r, h) ==
    { k \in 1..Len(requests[r].invoked) :
        /\ requests[r].invoked[k].controllerName = h.controllerName
        /\ requests[r].invoked[k].key = h.key }

inAnyRole(principal, roles) ==
    \E j \in 1..Len(roles) : roles[j] \in principal.roles

\* C1: on a route whose method declares @authorize, or whose class declares
\* @authorizeAll when the method has no rule of its own, a request whose
\* principal is not authenticated (every request, without an auth provider) is
\* answered with 401 and the controller method is never invoked.
C1_Unauthenticated401 ==
    \A r \in 1..Len(requests) : \A i \in ranHandlers(r) :
        LET q == requests[r]
        IN  (requirement(q.chain[i]) # None /\ ~q.ctx.principal.authenticated)
            => /\ invocations(r, q.chain[i]) = {}
               /\ q.done => q.ctx.status = 401

C3_PartialRoles403 ==
    \A r \in 1..Len(requests) : \A i \in ranHandlers(r) :
        LET q == requests[r]
            rule == requirement(q.chain[i])
        IN  (/\ rule # None
             /\ q.ctx.principal.authenticated
             /\ rule.requiredRoles = <<"role a", "role b">>
             /\ q.ctx.principal.roles = {"role a"})
            => /\ invocations(r, q.chain[i]) = {}
               /\ q.done => q.ctx.status = 403

\* A request is permitted on a route when no requirement applies to it, or
\* when the requirement lists no role and the principal is authenticated.
permitted(r, h) ==
    \/ requirement(h) = None
    \/ /\ requirement(h).requiredRoles = <<>>
       /\ requests[r].ctx.principal.authenticated

\* What the controller method put out in an invocation: the value it
\* returned, or else what it assigned to ctx.body itself.
output(inv) == IF inv.result # None THEN inv.result ELSE inv.written

\* C4: authorization never blocks a permitted request: once a route's handler
\* has run for a request that is permitted on it, the controller method has
\* been invoked, exactly once, and its own output is the response.
C4_PermittedInvoked ==
    \A r \in 1..Len(requests) : \A i \in ranHandlers(r) :
        LET q == requests[r]
        IN  permitted(r, q.chain[i])
            => /\ Cardinality(invocations(r, q.chain[i])) = 1
               /\ \A k \in invocations(r, q.chain[i]) :
                     /\ q.ctx.body = output(q.invoked[k])
                     /\ q.ctx.status = IF output(q.invoked[k]) # None THEN 200 ELSE 404

\* C4 witness: an answered request of an authenticated principal on a route
\* whose requirement lists no role, answered 200 with what the method returned;
\* the principal is in no role.
C4_Witness ==
    \E r \in 1..Len(requests) : \E i \in ranHandlers(r) :
        LET q == requests[r]
        IN  /\ q.done
            /\ requirement(q.chain[i]) # None
            /\ requirement(q.chain[i]).requiredRoles = <<>>
            /\ q.ctx.principal.authenticated
            /\ q.ctx.principal.roles = {}
            /\ q.ctx.status = 200
            /\ q.ctx.body = Str("foo")

----------------------------------------------------------------------------
(* Claims about build(), setConfig and setErrorConfig (SpecConfig)           *)

\* Where build number n begins and ends in the trace, and how it ended.
buildStart(n) ==
    CHOOSE i \in 1..Len(trace) : trace[i].ev = "build" /\ trace[i].build = n

buildEnd(n) ==
    CHOOSE i \in 1..Len(trace) :
        trace[i].ev \in {"return", "throw"} /\ trace[i].build = n

returned(n) == trace[buildEnd(n)].ev = "return"

\* The function most recently handed to setConfig (kind "setConfig") or to
\* setErrorConfig before position i of the trace; None when there was none.
lastSet(kind, i) ==
    LET S == { j \in 1..(i - 1) : trace[j].ev = kind }
    IN  IF S = {} THEN None
        ELSE trace[CHOOSE j \in S : \A k \in S : k <= j].fn

\* The steps build number n took, in order: "principal" and "router" are the
\* two middleware it installed itself, "route" is one route registration.
stepName(e) == IF e.ev = "use" THEN e.mw.tag ELSE e.ev

stepsOf(n) ==
    LET seg == SubSeq(trace, buildStart(n) + 1, buildEnd(n) - 1)
        own == SelectSeq(seg, LAMBDA e :
                   e.ev \in {"use", "configFn", "route", "errorConfigFn"})
    IN  [i \in 1..Len(own) |-> stepName(own[i])]

routesOf(n) ==
    SelectSeq(SubSeq(trace, buildStart(n) + 1, buildEnd(n) - 1),
              LAMBDA e : e.ev = "route")

optional(cond, x) == IF cond THEN <<x>> ELSE <<>>

\* The order of steps of a build() that returns.
expectedSteps(n) ==
    <<"principal">>
    \o optional(lastSet("setConfig", buildStart(n)) # None, "configFn")
    \o [i \in 1..Len(routesOf(n)) |-> "route"]
    \o <<"router">>
    \o optional(lastSet("setErrorConfig", buildStart(n)) # None, "errorConfigFn")

\* What build number n added to the application's chain.
installedBy(n) ==
    LET seg == SubSeq(trace, buildStart(n) + 1, buildEnd(n) - 1)
        own == SelectSeq(seg, LAMBDA e : e.ev \in {"use", "configFn", "errorConfigFn"})
    IN  [i \in 1..Len(own) |->
            IF own[i].ev = "use" THEN own[i].mw ELSE Fn(own[i].fn.id)]

RECURSIVE installedUpTo(_)
installedUpTo(n) == IF n = 0 THEN <<>> ELSE installedUpTo(n - 1) \o installedBy(n)

C6_LastSetInvoked ==
    /\ (trace # <<>> /\ trace[Len(trace)].ev \in {"setConfig", "setErrorConfig"})
       => ret = "this"
    /\ \A i \in 1..Len(trace) :
          /\ trace[i].ev = "configFn"
             => /\ buildStart(trace[i].build) < i /\ i < buildEnd(trace[i].build)
                /\ trace[i].fn = lastSet("setConfig", buildStart(trace[i].build))
          /\ trace[i].ev = "errorConfigFn"
             => /\ buildStart(trace[i].build) < i /\ i < buildEnd(trace[i].build)
                /\ trace[i].fn = lastSet("setErrorConfig", buildStart(trace[i].build))
    /\ \A n \in 1..builds :
          Len(SelectSeq(SubSeq(trace, buildStart(n), buildEnd(n)),
                        LAMBDA e : e.ev = "configFn")) <= 1

\* C6 witness: setConfig(cfgA), setConfig(cfgB) and setErrorConfig(cfgA) were
\* called before the first build(), which invoked cfgB and then cfgA.
C6_Witness ==
    /\ builds = 1
    /\ returned(1)
    /\ \E i, j, k \in 1..Len(trace) :
          /\ i < j /\ j < buildStart(1) /\ k < buildStart(1)
          /\ trace[i] = [ev |-> "setConfig", fn |-> Fn("cfgA")]
          /\ trace[j] = [ev |-> "setConfig", fn |-> Fn("cfgB")]
          /\ trace[k] = [ev |-> "setErrorConfig", fn |-> Fn("cfgA")]
    /\ \E i \in 1..Len(trace) :
          trace[i] = [ev |-> "configFn", build |-> 1, fn |-> Fn("cfgB")]
    /\ \E i \in 1..Len(trace) :
          trace[i] = [ev |-> "errorConfigFn", build |-> 1, fn |-> Fn("cfgA")]

----------------------------------------------------------------------------
(* Claims about route registration and middleware resolution (SpecBuild)     *)

\* The registrations the metadata of class c calls for: one per record of its
\* method-metadata list, in the list's order; none without controller metadata.
declaredRoutesOf(c) ==
    IF controllerMeta[c] = None THEN <<>>
    ELSE [j \in 1..Len(methodMeta[c]) |->
             [method |-> methodMeta[c][j].method,
              path |-> controllerMeta[c].path \o methodMeta[c][j].path,
              key |-> methodMeta[c][j].key,
              class |-> c]]

RECURSIVE declaredRoutes(_)
declaredRoutes(i) ==
    IF i > Len(controllers) THEN <<>>
    ELSE declaredRoutesOf(controllers[i]) \o declaredRoutes(i + 1)

\* The registrations made on the router, in order.
registered ==
    [k \in 1..Len(router.stack) |->
        LET route == router.stack[k]
            handler == route.chain[Len(route.chain)]
        IN  [method |-> route.method, path |-> route.path,
             key |-> handler.key, class |-> handler.controllerName]]

isPrefix(s, t) == Len(s) <= Len(t) /\ s = SubSeq(t, 1, Len(s))

\* C7: the route registrations build() makes are, controller by controller in
\* the container's order and method by method in the order of the
\* method-metadata list, the (verb, controller path \o method path) of each
\* decorated method: all of them, once each, when build() returns, and the
\* first of them, in order, when build() is cut short by an exception.
C7_RegistrationSequence ==
    /\ isPrefix(registered, declaredRoutes(1))
    /\ buildResult = "returned" => registered = declaredRoutes(1)
    /\ builds > 0 =>
          [k \in 1..Len(routesOf(1)) |-> routesOf(1)[k].route] = router.stack

\* C7 witness: build() returned with two controllers of two routes each, and
\* the two controllers differ in path.
C7_Witness ==
    /\ buildResult = "returned"
    /\ Len(controllers) = 2
    /\ Len(router.stack) = 4
    /\ router.stack[1].path # router.stack[3].path
    /\ router.stack[1].path # router.stack[2].path

\* The last resolution of controller-level middleware before position i.
controllerResolve(i) ==
    LET S == { j \in 1..(i - 1) :
                 trace[j].ev = "resolveMiddleware" /\ trace[j].level = "controller" }
    IN  trace[CHOOSE j \in S : \A k \in S : k <= j]

\* C8: the chain of every registered route is the controller's resolved
\* middleware in declaration order, then the method's resolved middleware in
\* declaration order, then the generated invocation handler, last.
C8_ChainOrder ==
    \A i \in 1..Len(trace) :
        trace[i].ev = "route" =>
            LET chain == trace[i].route.chain
                cm == controllerResolve(i).output
                mm == trace[i - 1].output
                h == chain[Len(chain)]
            IN  /\ trace[i - 1].ev = "resolveMiddleware"
                /\ trace[i - 1].level = "method"
                /\ chain = cm \o mm \o <<h>>
                /\ h.tag = "handler"
                /\ h.controllerName = controllerResolve(i).class
                /\ controllerResolve(i).input = controllerMeta[h.controllerName].middleware
                /\ \E j \in 1..Len(methodMeta[h.controllerName]) :
                      /\ methodMeta[h.controllerName][j].key = h.key
                      /\ methodMeta[h.controllerName][j].middleware = trace[i - 1].input

\* C8 witness: controller middleware [fnA, fnB, idBase] and method middleware
\* [idValue] gave the chain [fnA, fnB, wrapper, spyA, invocation handler].
C8_Witness ==
    \E k \in 1..Len(router.stack) :
        LET chain == router.stack[k].chain
        IN  /\ Len(chain) = 5
            /\ SubSeq(chain, 1, 4) = <<Fn("fnA"), Fn("fnB"),
                                       [tag |-> "wrapper", id |-> "TestMiddleware"],
                                       Fn("spyA")>>
            /\ chain[5].tag = "handler"

\* The resolutions of middleware lists that gave a list.
resolutions ==
    { i \in 1..Len(trace) : trace[i].ev = "resolveMiddleware" /\ ~trace[i].threw }

\* C9: resolveMiddleware gives a list of its input's length whose element k is
\* a wrapper around the resolved instance's handler when item k is bound to a
\* BaseMiddleware, the resolved value when item k is bound to anything else,
\* and item k itself when the container has no binding for it.
C9_ResolveMiddleware ==
    \A i \in resolutions :
        /\ Len(trace[i].output) = Len(trace[i].input)
        /\ \A k \in 1..Len(trace[i].input) :
              LET item == trace[i].input[k]
              IN  IF item \in DOMAIN bindings
                  THEN IF bindings[item].value.tag = "BaseMiddleware"
                       THEN trace[i].output[k] =
                               [tag |-> "wrapper", id |-> bindings[item].value.id]
                       ELSE trace[i].output[k] = bindings[item].value
                  ELSE trace[i].output[k] = item

\* C9 witness: one build() resolved [fnA, fnB, idBase] to [fnA, fnB, wrapper]
\* and [idFree, idValue] to [idFree, spyA].
C9_Witness ==
    /\ \E i \in resolutions :
          /\ trace[i].input = <<Fn("fnA"), Fn("fnB"), Sym("idBase")>>
          /\ trace[i].output = <<Fn("fnA"), Fn("fnB"),
                                 [tag |-> "wrapper", id |-> "TestMiddleware"]>>
    /\ \E i \in resolutions :
          /\ trace[i].input = <<Sym("idFree"), Sym("idValue")>>
          /\ trace[i].output = <<Sym("idFree"), Fn("spyA")>>

\* The lookup of an item fails when the container has no binding for it, or
\* has one that it cannot resolve.
lookupFails(item) == item \notin DOMAIN bindings \/ ~bindings[item].resolves

----------------------------------------------------------------------------
(* Claims about the arguments of the controller method (SpecParams)          *)

\* The invocations made so far: <<r, k>> is the k-th invocation of request r.
calls ==
    { c \in (1..Len(requests)) \X (1..2) : c[2] <= Len(requests[c[1]].invoked) }

invocation(c) == requests[c[1]].invoked[c[2]]

dataOf(c) == requests[c[1]].data

\* The parameter metadata stored for the method of an invocation.
metadataOf(c) == parameterMeta[invocation(c).controllerName][invocation(c).key]

\* The entries of that metadata, as positions of the list.
entries(c) == 1..Len(metadataOf(c))

\* The argument the method received at the position of entry j.
argument(c, j) == invocation(c).args[metadataOf(c)[j].index + 1]

\* C11: a method with no parameter metadata (none for the class, none for
\* the method's name, or an empty list) is invoked with exactly two arguments:
\* the context, then the continuation.
C11_NoMetadataArgs ==
    \A c \in calls :
        metadataOf(c) = <<>> => invocation(c).args = <<Ref("ctx"), NextFn>>

\* C11 witness: the class has parameter metadata, for another method only, and
\* the method was invoked with (context, continuation).
C11_Witness ==
    \E c \in calls :
        /\ invocation(c).key = "m1"
        /\ parameterMeta["A"]["m1"] = <<>>
        /\ parameterMeta["A"]["m2"] # <<>>
        /\ invocation(c).args = <<Ref("ctx"), NextFn>>

\* C12: a method with parameter metadata is invoked with the extracted value
\* of each entry at the position of the entry's index, whatever the order of
\* the entries in the list, undefined at the positions below the highest index
\* that no entry names, and then the context and the continuation as the two
\* last arguments.
C12_ArgsByIndex ==
    \A c \in calls :
        metadataOf(c) # <<>> =>
            LET args == invocation(c).args
                indexes == { metadataOf(c)[j].index : j \in entries(c) }
                top == CHOOSE m \in indexes : \A i \in indexes : i <= m
            IN  /\ Len(args) = top + 3
                /\ \A j \in entries(c) :
                      argument(c, j) = paramValue(dataOf(c), metadataOf(c)[j])
                /\ \A i \in 0..top : i \notin indexes => args[i + 1] = None
                /\ args[top + 2] = Ref("ctx")
                /\ args[top + 3] = NextFn

\* C12 witness: the entry of index 1 is stored before the entry of index 0,
\* and the call is (v0, v1, context, continuation) with v0 the route parameter
\* "id" and v1 the headers.
C12_Witness ==
    \E c \in calls :
        /\ Len(metadataOf(c)) = 2
        /\ metadataOf(c)[1] = [index |-> 1, parameterName |-> "default", type |-> "HEADERS"]
        /\ metadataOf(c)[2] = [index |-> 0, parameterName |-> "id", type |-> "PARAMS"]
        /\ invocation(c).args =
              <<Str("params.id"), Ref("headers"), Ref("ctx"), NextFn>>

\* C16: a QUERY-bound parameter declared without a name receives the whole
\* query collection of the request; with a name it receives the value of that
\* query parameter.
C16_QueryParam ==
    \A c \in calls : \A j \in entries(c) :
        metadataOf(c)[j].type = "QUERY" =>
            IF metadataOf(c)[j].parameterName = "default"
            THEN argument(c, j) = Ref("query")
            ELSE argument(c, j) =
                    property(dataOf(c), Ref("query"), metadataOf(c)[j].parameterName)

\* C17: a parameter bound with the default name receives the whole source
\* object of its type: the request, the response, the context, the route
\* params, the parsed body, the headers; a NEXT parameter receives the
\* continuation.
C17_WholeSource ==
    \A c \in calls : \A j \in entries(c) :
        LET e == metadataOf(c)[j]
        IN  /\ e.type = "NEXT" => argument(c, j) = NextFn
            /\ e.parameterName = "default" =>
                  /\ e.type = "REQUEST" => argument(c, j) = Ref("request")
                  /\ e.type = "RESPONSE" => argument(c, j) = Ref("response")
                  /\ e.type = "CTX" => argument(c, j) = Ref("ctx")
                  /\ e.type = "PARAMS" => argument(c, j) = Ref("params")
                  /\ e.type = "HEADERS" => argument(c, j) = Ref("headers")
                  /\ (e.type = "BODY" /\ dataOf(c).parsed) => argument(c, j) = Ref("body")

\* C18: a COOKIES-bound parameter of name n receives ctx.cookies.get(n), never
\* a property of the accessor object: the cookie's value when the request
\* carries cookie n, undefined when it does not.
C18_CookieAccessor ==
    \A c \in calls : \A j \in entries(c) :
        metadataOf(c)[j].type = "COOKIES" =>
            argument(c, j) = cookiesGet(dataOf(c), metadataOf(c)[j].parameterName)

\* C19: when no body parser has put a body on the request, a BODY-bound
\* parameter declared without a name receives the request object itself.
C19_BodyWithoutParser ==
    \A c \in calls : \A j \in entries(c) :
        (/\ metadataOf(c)[j].type = "BODY"
         /\ metadataOf(c)[j].parameterName = "default"
         /\ ~dataOf(c).parsed)
        => argument(c, j) = Ref("request")

\* C19 witness: @requestBody() on a request without a parsed body, whose
\* headers hold a field named "default": the method received the request.
C19_Witness ==
    \E c \in calls : \E j \in entries(c) :
        /\ metadataOf(c)[j] = [index |-> 0, parameterName |-> "default", type |-> "BODY"]
        /\ ~dataOf(c).parsed
        /\ "default" \in dataOf(c).fields
        /\ argument(c, j) = Ref("request")

----------------------------------------------------------------------------
(* Claims about what the generated handler does with the method's result     *)
(* (SpecHandler)                                                             *)

\* A step in which the generated handler of request r ran from its call to its
\* return: the method was invoked and returned a value that is no promise.
handlerStep(r) ==
    /\ r <= Len(requests')
    /\ Len(requests'[r].invoked) = Len(requests[r].invoked) + 1
    /\ Len(requests'[r].returns) = Len(requests[r].returns) + 1
    /\ requests'[r].pending = None

\* C13: after the controller method returns a value that is no promise, the
\* generated handler assigns it to the response body if and only if it is
\* truthy and the response headers have not been sent; otherwise the body is
\* as the method left it.
C13_WritesReturnedValue ==
    [][ \A r \in 1..Len(requests) :
          handlerStep(r) =>
              LET inv == requests'[r].invoked[Len(requests'[r].invoked)]
                  left == IF inv.written # None THEN inv.written
                          ELSE requests[r].ctx.body
                  headerSent == requests[r].ctx.headerSent \/ inv.sent
              IN  /\ requests'[r].ctx.headerSent = headerSent
                  /\ requests'[r].ctx.body =
                        IF truthy(inv.result) /\ ~headerSent THEN inv.result ELSE left
      ]_vars

\* C13 witness: the first method returned "foo", which became the body; the
\* second sent the response itself and returned "bar": the body is still "foo".
C13_Witness ==
    \E r \in 1..Len(requests) :
        LET q == requests[r]
        IN  /\ q.done
            /\ Len(q.invoked) = 2
            /\ Len(q.returns) = 2
            /\ q.invoked[1].result = Str("foo") /\ ~q.invoked[1].sent
            /\ q.invoked[1].written = None
            /\ q.invoked[2].result = Str("bar") /\ q.invoked[2].sent
            /\ q.invoked[2].written = None
            /\ q.ctx.body = Str("foo")

\* The last invocation of request q, when its handler has returned and no
\* other handler has run since.
lastCompleted(q) ==
    /\ q.invoked # <<>>
    /\ Len(q.returns) = Len(q.invoked)

\* C14: when the controller method returns a promise that resolves to a truthy
\* value v and the response headers have not been sent, the generated handler
\* returns only after the promise has resolved, and the response body then is v.
C14_PromiseAwaited ==
    \A r \in 1..Len(requests) :
        LET q == requests[r]
        IN  /\ q.pending # None => Len(q.returns) < Len(q.invoked)
            /\ Len(q.returns) = Len(q.invoked) => q.settled = promises(q)
            /\ (/\ lastCompleted(q)
                /\ isPromise(q.invoked[Len(q.invoked)].result)
                /\ truthy(q.invoked[Len(q.invoked)].result.value)
                /\ ~q.ctx.headerSent)
               => /\ q.ctx.body = q.invoked[Len(q.invoked)].result.value
                  /\ q.ctx.status = 200

\* C14 witness: the method returned a promise of "foo" and wrote nothing; the
\* promise resolved, the handler returned and the answer is 200 "foo".
C14_Witness ==
    \E r \in 1..Len(requests) :
        LET q == requests[r]
        IN  /\ q.done
            /\ Len(q.invoked) = 1
            /\ q.invoked[1].result = Promise(Str("foo"))
            /\ q.invoked[1].written = None
            /\ q.settled = 1
            /\ q.ctx.body = Str("foo")
            /\ q.ctx.status = 200

----------------------------------------------------------------------------
(* Claim about the principal of a request (SpecAuth, a server built once)    *)

----------------------------------------------------------------------------
(* Claims about the handler chain of one request (SpecChain)                 *)

\* The elements of request q's chain that have started: those before pos, and
\* the handler at pos while it awaits the promise its method returned.
started(q) ==
    { i \in 1..Len(q.chain) : i < q.pos \/ (i = q.pos /\ q.pending # None) }

\* C21: within one request an element of the chain (server-level middleware,
\* controller middleware, method middleware and the invocation handlers of the
\* routes of the same verb and path, in declaration order) runs only if every
\* element before it invoked its continuation; once an element has not, no
\* later middleware or handler runs.
C21_RunsOnlyAfterNext ==
    \A r \in 1..Len(requests) :
        LET q == requests[r]
        IN  /\ Len(q.nexts) = q.pos - 1
            /\ \A i \in started(q) : \A j \in 1..(i - 1) : q.nexts[j]
            /\ \A j \in 1..Len(q.nexts) :
                  ~q.nexts[j] => q.done /\ started(q) = 1..j
            /\ Len(q.invoked) =
                  Cardinality({ i \in started(q) : q.chain[i].tag = "handler" })
            /\ Len(q.observed) =
                  Cardinality({ i \in started(q) :
                                  q.chain[i].tag \in {"function", "wrapper"} })

\* C21 witness: the chain holds the principal middleware, the server-level,
\* the controller's and the method's middleware and two handlers; the first
\* handler ran and did not call its continuation, and the request ended with
\* the second handler never invoked.
C21_Witness ==
    \E r \in 1..Len(requests) :
        LET q == requests[r]
        IN  /\ q.done
            /\ [i \in 1..Len(q.chain) |-> q.chain[i].tag] =
                  <<"principal", "function", "function", "wrapper", "handler",
                    "function", "handler">>
            /\ q.chain[2] = Fn("cfgA") /\ q.chain[3] = Fn("spyA")
            /\ q.nexts = <<TRUE, TRUE, TRUE, TRUE, FALSE>>
            /\ Len(q.invoked) = 1
            /\ q.invoked[1].key = q.chain[5].key

----------------------------------------------------------------------------
(* Claims about the decorators' metadata                                     *)

\* The indexes of a parameter list, in list order.
indexesOf(list) == [j \in 1..Len(list) |-> list[j].index]

ascending(seq) == \A i, j \in 1..Len(seq) : i < j => seq[i] < seq[j]

\* C22: each application of the parameter binder puts exactly one entry
\* {index, parameterName, type} at the front of the list of its own method and
\* leaves the lists of all other methods as they are; applied from the highest
\* parameter index down to the lowest, the binders leave a list with one entry
\* per bound parameter in ascending index order.
C22_ParamsPrepends ==
    [][ parameterMeta' # parameterMeta =>
          \E c \in Classes, key \in Keys :
              LET old == parameterMeta[c][key]
                  new == parameterMeta'[c][key]
              IN  /\ Len(new) = Len(old) + 1
                  /\ new = <<new[1]>> \o old
                  /\ DOMAIN new[1] = {"index", "parameterName", "type"}
                  /\ \A c2 \in Classes, k2 \in Keys :
                        <<c2, k2>> # <<c, key>> =>
                            parameterMeta'[c2][k2] = parameterMeta[c2][k2]
                  /\ (/\ ascending(indexesOf(old))
                      /\ \A j \in 1..Len(old) : new[1].index < old[j].index)
                     => /\ ascending(indexesOf(new))
                        /\ indexesOf(new) = <<new[1].index>> \o indexesOf(old)
      ]_vars

\* C22 witness: the parameters of m1 were bound, index 1 and then index 0, and
\* the parameter of m2 before or after them: the list of m1 holds the entries
\* of index 0 and 1 in this order, next to the one entry of m2.
C22_Witness ==
    /\ indexesOf(parameterMeta["A"]["m1"]) = <<0, 1>>
    /\ parameterMeta["A"]["m1"][1].parameterName = "default"
    /\ parameterMeta["A"]["m1"][2].parameterName = "id"
    /\ Len(parameterMeta["A"]["m2"]) = 1
    /\ parameterMeta["B"]["m1"] = <<>>

\* The record @authorize(...roles) leaves for method key of class c.
authorizeRecord(c, key, roles) ==
    [requiredRoles |-> roles, target |-> c, key |-> key]

\* C23: after any sequence of authorize applications on methods of a class,
\* the class's authorization map holds exactly one record per decorated method
\* name, carrying that method's name and the role list of the latest
\* application; an application to one method changes the record of no other
\* method and of no other class.
C23_AuthorizeMap ==
    /\ [](\A c \in Classes, key \in Keys :
            authorizeMeta[c][key] # None =>
                \E roles \in DecoratorRoleLists :
                    authorizeMeta[c][key] = authorizeRecord(c, key, roles))
    /\ [][ \A c \in Classes, key \in Keys, roles \in DecoratorRoleLists :
            authorize(c, key, roles) =>
                /\ authorizeMeta'[c][key] = authorizeRecord(c, key, roles)
                /\ \A c2 \in Classes, k2 \in Keys :
                      <<c2, k2>> # <<c, key>> =>
                          authorizeMeta'[c2][k2] = authorizeMeta[c2][k2]
                /\ authorizeAllMeta' = authorizeAllMeta
       ]_vars
    /\ [][ authorizeMeta' # authorizeMeta =>
            \E c \in Classes, key \in Keys, roles \in DecoratorRoleLists :
                authorizeMeta' =
                    [authorizeMeta EXCEPT ![c][key] = authorizeRecord(c, key, roles)]
       ]_vars

\* C23 witness: three methods carry three different role lists, each under
\* its own name, and the fourth method carries none.
C23_Witness ==
    /\ authorizeMeta["A"]["m1"] = authorizeRecord("A", "m1", <<"role a", "role b">>)
    /\ authorizeMeta["A"]["m2"] = authorizeRecord("A", "m2", <<"foo", "bar">>)
    /\ authorizeMeta["B"]["m1"] = authorizeRecord("B", "m1", <<"bar", "foo">>)
    /\ authorizeMeta["B"]["m2"] = None

----------------------------------------------------------------------------
(* Further claims about build() (SpecRebuild)                                *)

\* The routes build number n registered, in order.
registeredBy(n) == [k \in 1..Len(routesOf(n)) |-> routesOf(n)[k].route]

\* if (controllerMetadata && methodMetadata) fails for class c.
lacksMetadata(c) == controllerMeta[c] = None \/ methodMeta[c] = <<>>

\* C24: during build() a controller instance whose class lacks controller
\* metadata or lacks a method-metadata list contributes no route registration,
\* and build() still completes, mounts the router and invokes the error-config
\* function.
C24_NoMetadataNoRoutes ==
    \A n \in 1..builds :
        /\ \A k \in 1..Len(routesOf(n)) :
              LET chain == routesOf(n)[k].route.chain
              IN  ~lacksMetadata(chain[Len(chain)].controllerName)
        /\ ~returned(n) =>
              \E i \in buildStart(n)..buildEnd(n) :
                  trace[i].ev = "resolveMiddleware" /\ trace[i].threw
        /\ (\A i \in 1..Len(controllers) : lacksMetadata(controllers[i])) =>
              /\ returned(n)
              /\ routesOf(n) = <<>>
              /\ stepsOf(n) =
                    <<"principal">>
                    \o optional(lastSet("setConfig", buildStart(n)) # None, "configFn")
                    \o <<"router">>
                    \o optional(lastSet("setErrorConfig", buildStart(n)) # None,
                                "errorConfigFn")
              /\ \E i \in 1..Len(app) : app[i].tag = "router"

\* C24 witness: of the two bound controllers the first has no metadata at all
\* and the second has one route, and an error-config function is set: build()
\* returned, registered the one route of the second controller only, mounted
\* the router and invoked the function.
C24_Witness ==
    /\ builds >= 1
    /\ controllers = <<"B", "A">>
    /\ controllerMeta["B"] = None
    /\ ~lacksMetadata("A")
    /\ returned(1)
    /\ Len(registeredBy(1)) = 1
    /\ registeredBy(1)[1].chain[Len(registeredBy(1)[1].chain)].controllerName = "A"
    /\ stepsOf(1) = <<"principal", "route", "router", "errorConfigFn">>
    /\ app[3] = Fn("cfgB")

RECURSIVE registeredUpTo(_)
registeredUpTo(n) == IF n = 0 THEN <<>> ELSE registeredUpTo(n - 1) \o registeredBy(n)

\* The principal-resolving middleware in the application's chain.
principalsInstalled == SelectSeq(app, LAMBDA mw : mw.tag = "principal")

\* C26: build() is not idempotent: every call that returns registers every
\* declared route on the one router, so that after a second call the router
\* holds two entries per declared route; each call installs a
\* principal-resolving middleware of its own and invokes the config and the
\* error-config function, when set, again.
C26_BuildNotIdempotent ==
    /\ router.stack = registeredUpTo(builds)
    /\ principalsInstalled = [n \in 1..builds |-> [tag |-> "principal", build |-> n]]
    /\ \A n \in 1..builds :
          returned(n) =>
              /\ Len(registeredBy(n)) = Len(declaredRoutes(1))
              /\ registeredBy(n) = registeredBy(1)
              /\ Len(router.stack) >= n * Len(declaredRoutes(1))
              /\ lastSet("setConfig", buildStart(n)) # None =>
                    \E i \in buildStart(n)..buildEnd(n) :
                        /\ trace[i].ev = "configFn"
                        /\ trace[i].fn = lastSet("setConfig", buildStart(n))
              /\ lastSet("setErrorConfig", buildStart(n)) # None =>
                    \E i \in buildStart(n)..buildEnd(n) :
                        /\ trace[i].ev = "errorConfigFn"
                        /\ trace[i].fn = lastSet("setErrorConfig", buildStart(n))

\* C26 witness: build() returned twice for a controller with one route and
\* with both functions set: the router holds the route twice, the chain two
\* principal-resolving middleware, and both functions were invoked twice.
C26_Witness ==
    /\ builds = 2
    /\ returned(1) /\ returned(2)
    /\ Len(declaredRoutes(1)) = 1
    /\ Len(router.stack) = 2
    /\ router.stack[1] = router.stack[2]
    /\ Len(principalsInstalled) = 2
    /\ Len(SelectSeq(trace, LAMBDA e : e.ev = "configFn")) = 2
    /\ Len(SelectSeq(trace, LAMBDA e : e.ev = "errorConfigFn")) = 2

----------------------------------------------------------------------------
(* Claims about when middleware is resolved (SpecChain)                      *)

\* The resolutions build number n made of middleware of class c at a level
\* ("controller" or "method"), as positions of the trace.
resolvedIn(n, c, level) ==
    { i \in 1..Len(trace) :
        /\ trace[i].ev = "resolveMiddleware"
        /\ trace[i].build = n /\ trace[i].class = c /\ trace[i].level = level }

\* C29: middleware identifiers are resolved against the container only during
\* build(): not when a decorator is applied and not while a request is
\* handled; within one build() the controller-level middleware of a controller
\* is resolved exactly once, not once per route, and shared by all its routes,
\* and the middleware of each method exactly once.
C29_ResolvedAtBuildOnly ==
    /\ \A i \in 1..Len(trace) :
          trace[i].ev = "resolveMiddleware" =>
              /\ trace[i].build \in 1..builds
              /\ buildStart(trace[i].build) < i
              /\ i < buildEnd(trace[i].build)
    /\ \A n \in 1..builds, k \in 1..Len(controllers) :
          LET c == controllers[k]
          IN  (returned(n) /\ ~lacksMetadata(c)) =>
                  /\ Cardinality(resolvedIn(n, c, "controller")) = 1
                  /\ Cardinality(resolvedIn(n, c, "method")) = Len(methodMeta[c])
                  /\ \A j \in 1..Len(routesOf(n)) :
                        LET chain == routesOf(n)[j].route.chain
                            shared == trace[CHOOSE i \in resolvedIn(n, c, "controller") :
                                                TRUE].output
                        IN  chain[Len(chain)].controllerName = c =>
                                isPrefix(shared, chain)

\* C29 witness: the controller's middleware is an identifier of the container
\* and both methods are routes, one with an identifier of its own; build()
\* resolved the controller's once and each method's once, both routes begin
\* with the one resolved handler, and a request has since run to its end
\* through them.
C29_Witness ==
    /\ builds = 1 /\ returned(1)
    /\ controllerMeta["A"] # None
    /\ controllerMeta["A"].middleware = <<Sym("idValue")>>
    /\ Len(router.stack) = 2
    /\ Cardinality(resolvedIn(1, "A", "controller")) = 1
    /\ Cardinality(resolvedIn(1, "A", "method")) = 2
    /\ router.stack[1].chain[1] = Fn("spyA") /\ router.stack[2].chain[1] = Fn("spyA")
    /\ \E i \in resolvedIn(1, "A", "method") : trace[i].input = <<Sym("idBase")>>
    /\ requests # <<>>
    /\ requests[1].done
    /\ Len(requests[1].invoked) = 2

----------------------------------------------------------------------------
(* Claims about the controller instance of an invocation (SpecHandler)       *)

\* The positions of request r's chain that hold an invocation handler.
handlerPositions(r) ==
    { i \in 1..Len(requests[r].chain) : requests[r].chain[i].tag = "handler" }

----------------------------------------------------------------------------
(* Claims about failing controller methods (SpecHandler)                     *)

\* The error invocation inv ends with: what its method threw, or what the
\* promise it returned rejects with; None when it ends with a value.
errorOf(inv) ==
    IF inv.result.tag = "throw" THEN inv.result.error
    ELSE IF inv.result.tag = "promise" /\ inv.result.value.tag = "throw"
    THEN inv.result.value.error
    ELSE None

\* Invocation k of request q is over: its method returned or threw, and a
\* promise it returned has settled and the handler has gone on.
over(q, k) == k < Len(q.invoked) \/ q.pending = None

\* C27: when a controller method throws, or returns a promise that rejects,
\* the generated handler fails with that same failure and neither returns nor
\* writes the response body; the failure passes the principal-resolving
\* middleware as it is and reaches the host application: the request ends with
\* it, and nothing after the failing handler runs.
C27_FailurePropagates ==
    /\ [](\A r \in 1..Len(requests) :
            LET q == requests[r]
            IN  /\ \A k \in 1..Len(q.invoked) :
                      (over(q, k) /\ errorOf(q.invoked[k]) # None) =>
                          /\ q.failure = errorOf(q.invoked[k])
                          /\ q.done
                          /\ k = Len(q.invoked)
                          /\ Len(q.returns) = k - 1
                          /\ q.ctx.body \notin {q.invoked[k].result, q.failure}
                          /\ q.calls = 1
                /\ q.failure # None =>
                      /\ q.invoked # <<>>
                      /\ q.failure = errorOf(q.invoked[Len(q.invoked)]))
    /\ [][ \A r \in 1..Len(requests) :
            (requests[r].failure = None /\ requests'[r].failure # None) =>
                LET inv == requests'[r].invoked[Len(requests'[r].invoked)]
                    left == IF requests[r].pending = None /\ inv.written # None
                            THEN inv.written
                            ELSE requests[r].ctx.body
                IN  /\ requests'[r].ctx.body = left
                    /\ requests'[r].returns = requests[r].returns
       ]_vars

\* C27 witness: the first method returned "foo", which became the body; the
\* second returned a promise that rejected: the request ended with that
\* error, the second handler did not return, and the body is still "foo".
C27_Witness ==
    \E r \in 1..Len(requests) :
        LET q == requests[r]
        IN  /\ q.done
            /\ Len(q.invoked) = 2
            /\ q.invoked[1].result = Str("foo")
            /\ q.invoked[2].result = Rejected(Err("boom"))
            /\ q.invoked[2].written = None
            /\ q.failure = Err("boom")
            /\ Len(q.returns) = 1
            /\ q.ctx.body = Str("foo")
            /\ q.calls = 1

----------------------------------------------------------------------------
(* Claims about named bindings whose field is missing (SpecParams)           *)

\* source[paramType] || source, for the binding types that read an object.
sourceOf(data, type) ==
    CASE type = "REQUEST" -> Ref("request")
      [] type = "RESPONSE" -> Ref("response")
      [] type = "CTX" -> Ref("ctx")
      [] type = "PARAMS" -> Ref("params")
      [] type = "HEADERS" -> Ref("headers")
      [] type = "BODY" -> IF data.parsed THEN Ref("body") ELSE Ref("request")

ObjectTypes == {"PARAMS", "BODY", "HEADERS", "REQUEST", "RESPONSE", "CTX"}

\* A PARAMS, BODY, HEADERS, REQUEST, RESPONSE or CTX binding with an explicit
\* name whose field is absent or falsy on the source object receives the whole
\* source object.
wholeSourceWhenMissing ==
    \A c \in calls : \A j \in entries(c) :
        LET e == metadataOf(c)[j]
        IN  (/\ e.type \in ObjectTypes
             /\ e.parameterName # "default"
             /\ ~truthy(property(dataOf(c), sourceOf(dataOf(c), e.type),
                                 e.parameterName)))
            => argument(c, j) = sourceOf(dataOf(c), e.type)

\* A QUERY binding with an explicit name receives undefined when the query
\* string has no such key.
queryUndefinedWhenMissing ==
    \A c \in calls : \A j \in entries(c) :
        LET e == metadataOf(c)[j]
        IN  (/\ e.type = "QUERY"
             /\ e.parameterName # "default"
             /\ e.parameterName \notin dataOf(c).fields)
            => argument(c, j) = None

----------------------------------------------------------------------------
(* Claims about concurrent requests (SpecConcurrent)                         *)

\* C28: for any interleaving of concurrent requests at their suspension
\* points, the principal stored for a request is the one computed from its own
\* context, and the arguments of its controller method are extracted from its
\* own context; handling a request writes no field of the server object and
\* no metadata.
C28_RequestsIsolated ==
    /\ [](\A r \in 1..Len(requests) :
            LET q == requests[r]
            IN  /\ q.pos > 1 => q.ctx.principal = q.provided
                /\ \A k \in 1..Len(q.invoked) :
                      /\ q.invoked[k].principal = q.provided
                      /\ q.invoked[k].args =
                            <<property(q.data, Ref("query"), "id"), Ref("ctx"), NextFn>>)
    /\ [][ (requests # <<>> /\ requests' # requests) =>
              UNCHANGED <<metaVars, controllers, serverVars>> ]_vars

\* C28 witness: two requests with different principals and different query
\* strings are in flight; the first awaits the promise of its method while the
\* second's method has run too: each method received its own request's query
\* parameter, under its own request's principal.
C28_Witness ==
    /\ Len(requests) = 2
    /\ requests[1].provided # requests[2].provided
    /\ requests[1].data # requests[2].data
    /\ isPromise(requests[1].pending)
    /\ ~requests[2].done
    /\ Len(requests[1].invoked) = 1 /\ Len(requests[2].invoked) = 1
    /\ requests[1].invoked[1].args[1] = Str("query.id")
    /\ requests[2].invoked[1].args[1] = None
    /\ requests[1].ctx.principal = requests[1].provided
    /\ requests[2].ctx.principal = requests[2].provided

============================================================================
